---- MODULE Spec2Model ----
(***************************************************************************)
(* The markdown_composer remote plugin (rplugin/python3/markdown_composer/ *)
(* __init__.py): the MarkdownPlugin object, its command and autocommand    *)
(* handlers, the thread started by start_client, and the renderer that     *)
(* connects back to the listening socket.                                  *)
(*                                                                         *)
(* Handlers run one at a time on the plugin host's main thread; the thread *)
(* started at line 129 runs concurrently with them.  send_current_buffer   *)
(* reads self.client twice (lines 39 and 43), so it is two steps, and the  *)
(* thread may install a connection between them.  The editor (buffer text, *)
(* g: variables) and the renderer (connect, hang up) are the environment.  *)
(* Strings are sequences of one-character strings.                         *)
(***************************************************************************)
EXTENDS Integers, Sequences, FiniteSets, TLC

VARIABLES
    server,           \* self.server: None or the number of the listening socket
    client,           \* self.client: None or the number of the accepted connection
    client_process,   \* self.client_process: None or an index into popen
    listening_port,   \* self.listening_port: None or a port number
    vimvars,          \* the editor's g:markdown_composer_* variables
    buffer,           \* vim.current.buffer: the lines of the current buffer
    cwd,              \* the editor's current directory
    file,             \* the file behind the current buffer: None, or its path
    threads,          \* the threads started at line 129, each with its closure
    popen,            \* every subprocess.Popen call made: its arguments and outcome
    sockets,          \* number of listening sockets created (line 89)
    backlog,          \* connections made to the listening port, not yet accepted
    conns,            \* number of connections the renderer has made
    open,             \* accepted connections whose socket object is still open
    reset,            \* open connections whose renderer end is gone
    wire,             \* every frame written, oldest first
    mpc,              \* main thread: "idle", or "write" between lines 40 and 42
    cur,              \* the request the main thread is handling when mpc = "write"
    issued,           \* number of requests handled with a connection present
    result,           \* the last finished handler and how it ended
    edits             \* number of changes the editor has made

vars == <<server, client, client_process, listening_port, vimvars, buffer,
          cwd, file, threads, popen, sockets, backlog, conns, open, reset, wire, mpc, cur,
          issued, result, edits>>

----------------------------------------------------------------------------
(* Bounds *)

MaxLines == 2     \* lines in the buffer
MaxReqs == 2      \* requests issued in one run
MaxConns == 2     \* connections the renderer makes in one run
MaxEdits == 1     \* changes the editor makes to the buffer and the variables

(* Program constants *)

Backlog == 1      \* self.server.listen(1)

\* An optional value: None, or Some(x).  Python's None and an unset g: variable.
None == <<>>
Some(x) == <<x>>

\* The port the operating system gives the n-th socket bound to
\* ('localhost', 0): an unused port, here a different one for each socket.
EphemeralPort(n) == 40000 + 9 * n

LineValues == {<<>>, <<"a">>}

Buffers == UNION {[1..n -> LineValues] : n \in 1..MaxLines}

BrowserValues == {None, Some(<<>>), Some(<<"f", "x">>)}
OpenBrowserValues == {None, Some(0), Some(1)}
ThemeValues == {None, Some(<<>>), Some(<<"g">>)}
AutostartValues == {None, Some(0), Some(1)}

\* Directories the editor may be in, and the files a buffer may be backed by.
Dirs == {<<"/", "x">>, <<"/", "y">>}
Files == {None, Some(<<"/", "x", "/", "a">>)}

----------------------------------------------------------------------------
(* Pure functions *)

\* '\n'.join(lines)
RECURSIVE Join(_)
Join(lines) ==
    IF Len(lines) = 0 THEN <<>>
    ELSE IF Len(lines) = 1 THEN lines[1]
    ELSE lines[1] \o <<"\n">> \o Join(Tail(lines))

\* text.split('\n'): how the receiving end recovers the lines
RECURSIVE Split(_)
Split(text) ==
    IF \A i \in 1..Len(text) : text[i] # "\n" THEN <<text>>
    ELSE LET k == CHOOSE i \in 1..Len(text) :
                      text[i] = "\n" /\ \A j \in 1..(i - 1) : text[j] # "\n"
         IN <<SubSeq(text, 1, k - 1)>> \o Split(SubSeq(text, k + 1, Len(text)))

Digit(d) == <<"0", "1", "2", "3", "4", "5", "6", "7", "8", "9">>[d + 1]

\* str(n) for a non-negative integer
RECURSIVE Str(_)
Str(n) == IF n < 10 THEN <<Digit(n)>> ELSE Str(n \div 10) \o <<Digit(n % 10)>>

\* As Format, formatting an attribute that is never assigned.
FormatUnset(x) == <<"N", "o", "n", "e">>

\* '{}'.format(x) for a port number or None
Format(x) == IF x = None THEN <<"N", "o", "n", "e">> ELSE Str(x[1])

\* vim.vars.get(name, default) of an integer variable
VarsGet(value, default) == IF value = None THEN default ELSE value[1]

----------------------------------------------------------------------------
(* Renderer invocation: launch_client_process, lines 110-124 *)

Cargo == <<"c", "a", "r", "g", "o">>
Run == <<"r", "u", "n">>
Release == <<"-", "-", "r", "e", "l", "e", "a", "s", "e">>
DashDash == <<"-", "-">>
BrowserFlag == <<"-", "-", "b", "r", "o", "w", "s", "e", "r", "=">>
NoBrowserFlag == <<"-", "-", "n", "o", "-", "b", "r", "o", "w", "s", "e", "r">>
ThemeFlag == <<"-", "-", "h", "i", "g", "h", "l", "i", "g", "h", "t", "-",
               "t", "h", "e", "m", "e", "=">>

\* As Closure, with an unset g:markdown_composer_open_browser read as 0.
ClosureOpenUnsetOff ==
    [browser |-> vimvars.browser,
     open_browser |-> (VarsGet(vimvars.open_browser, 0) = 1),
     syntax_theme |-> vimvars.syntax_theme,
     current_buffer |-> Join(buffer)]

\* The closure of launch_client_process: the locals of start_client read at
\* lines 98-102.
Closure ==
    [browser |-> vimvars.browser,
     open_browser |-> (VarsGet(vimvars.open_browser, 1) = 1),
     syntax_theme |-> vimvars.syntax_theme,
     current_buffer |-> Join(buffer)]

\* `if browser:` and `if syntax_theme:`: None and '' are false.
TruthyStr(v) == v # None /\ v[1] # <<>>

\* As ArgSource, reading the variables and the buffer when the thread runs.
ArgSourceLate(t) == Closure

\* The values launch_client_process builds its arguments from: the closure of
\* thread t.
ArgSource(t) == t

\* args + [str(self.listening_port), current_buffer], lines 111-122
PopenArgs(t) ==
    LET c == ArgSource(t) IN
    <<Cargo, Run, Release, DashDash>>
    \o (IF TruthyStr(c.browser) THEN <<BrowserFlag \o c.browser[1]>> ELSE <<>>)
    \o (IF ~c.open_browser THEN <<NoBrowserFlag>> ELSE <<>>)
    \o (IF TruthyStr(c.syntax_theme) THEN <<ThemeFlag \o c.syntax_theme[1]>> ELSE <<>>)
    \o <<Format(listening_port), c.current_buffer>>

----------------------------------------------------------------------------
(* State *)

\* seen: the connection the handler found at its check of line 39
NoReq == [op |-> "none", req |-> 0, seen |-> None]

\* How a handler ended: "returned", "dropped" (the return of line 40), "noop"
\* (the return of line 87), "started", "skipped", "sent", or the exception raised.
Outcome(op, how) == [op |-> op, how |-> how, echom |-> <<>>]

Init ==
    /\ server = None
    /\ client = None
    /\ client_process = None
    /\ listening_port = None
    /\ vimvars = [browser |-> None, open_browser |-> None,
                  syntax_theme |-> None, autostart |-> None]
    /\ buffer = <<<<>>>>
    /\ cwd = <<"/", "x">>
    /\ file = None
    /\ threads = <<>>
    /\ popen = <<>>
    /\ sockets = 0
    /\ backlog = <<>>
    /\ conns = 0
    /\ open = {}
    /\ reset = {}
    /\ wire = <<>>
    /\ mpc = "idle"
    /\ cur = NoReq
    /\ issued = 0
    /\ result = Outcome("none", "none")
    /\ edits = 0

plugin == <<server, client, client_process, listening_port>>
editor == <<vimvars, buffer, cwd, file, edits>>
network == <<backlog, conns, open, reset>>
worker == <<threads, popen>>

\* As HandlerMayRun, with every handler run as soon as its event arrives.
HandlerMayRunAlways == TRUE

\* The plugin host runs one handler at a time.
HandlerMayRun == mpc = "idle"

----------------------------------------------------------------------------
(* The editor *)

\* One change to the buffer: a line is rewritten, added or deleted.
BufferEdits(b) ==
    {[b EXCEPT ![i] = l] : i \in 1..Len(b), l \in LineValues}
    \cup {Append(b, l) : l \in LineValues}
    \cup {SubSeq(b, 1, Len(b) - 1)}

EditBuffer ==
    /\ edits < MaxEdits
    /\ \E b \in (BufferEdits(buffer) \cap Buffers) \ {buffer} : buffer' = b
    /\ edits' = edits + 1
    /\ UNCHANGED <<plugin, vimvars, cwd, file, worker, sockets, network, wire,
                   mpc, cur, issued, result>>

SetVar ==
    /\ edits < MaxEdits
    /\ \E v \in [browser : BrowserValues, open_browser : OpenBrowserValues,
                 syntax_theme : ThemeValues, autostart : AutostartValues] :
          /\ Cardinality({f \in DOMAIN v : v[f] # vimvars[f]}) = 1
          /\ vimvars' = v
    /\ edits' = edits + 1
    /\ UNCHANGED <<plugin, buffer, cwd, file, worker, sockets, network, wire,
                   mpc, cur, issued, result>>

\* The editor changes its current directory (:cd, or entering a buffer that
\* changes it).  The class registers handlers for FileType, TextChanged*,
\* CursorHold* and four commands only, so nothing of the plugin runs.
DirChanged ==
    /\ edits < MaxEdits
    /\ \E d \in Dirs \ {cwd} : cwd' = d
    /\ edits' = edits + 1
    /\ UNCHANGED <<plugin, vimvars, buffer, file, worker, sockets, network, wire,
                   mpc, cur, issued, result>>

----------------------------------------------------------------------------
(* start_client, lines 79-129 *)

\* As StartGuard, with the check of line 86 left out.
StartGuardMissing == FALSE

\* As StartGuard, testing the process handle instead of the socket.
StartGuardProcess == client_process # None

\* `if self.server is not None: return`, lines 86-87
StartGuard == server # None

\* As NewThread, with start_client running launch_client_process itself up
\* to its accept loop before it returns.
NewThreadJoined == [pc |-> "accept"] @@ Closure

\* threading.Thread(target=launch_client_process).start(), line 129: the
\* thread is at its first line, with the locals of lines 98-102 in its closure.
NewThread == [pc |-> "spawn"] @@ Closure

start_client(op) ==
    /\ IF StartGuard
       THEN /\ result' = Outcome(op, "noop")
            /\ UNCHANGED <<plugin, worker, sockets, backlog>>
       ELSE /\ server' = Some(sockets + 1)
            /\ listening_port' = Some(EphemeralPort(sockets + 1))
            /\ sockets' = sockets + 1
            /\ backlog' = <<>>
            /\ threads' = Append(threads, NewThread)
            /\ result' = Outcome(op, "started")
            /\ UNCHANGED <<client, client_process, popen>>
    /\ UNCHANGED <<editor, conns, open, reset, wire, mpc, cur, issued>>

\* ComposerStart, lines 64-67
composer_start ==
    /\ HandlerMayRun
    /\ start_client("ComposerStart")

\* As should_autostart, with an unset variable read as false.
should_autostart_unset_off == VarsGet(vimvars.autostart, 0) # 0

\* should_autostart, lines 50-52, as the condition of line 76
should_autostart == VarsGet(vimvars.autostart, 1) # 0

\* FileType markdown, lines 74-77
auto_start_client ==
    /\ HandlerMayRun
    /\ IF should_autostart
       THEN start_client("FileType")
       ELSE /\ result' = Outcome("FileType", "skipped")
            /\ UNCHANGED <<plugin, editor, worker, sockets, network, wire, mpc,
                           cur, issued>>

----------------------------------------------------------------------------
(* launch_client_process, lines 104-127 *)

\* subprocess.Popen, lines 121-124: it returns a process, or raises and ends
\* the thread.
ThreadSpawn(i) ==
    /\ threads[i].pc = "spawn"
    /\ \E ok \in BOOLEAN :
          /\ popen' = Append(popen, [args |-> PopenArgs(threads[i]),
                                     cwd |-> "plugin_root", ok |-> ok])
          /\ IF ok
             THEN /\ client_process' = Some(Len(popen) + 1)
                  /\ threads' = [threads EXCEPT ![i].pc = "accept"]
             ELSE /\ client_process' = client_process
                  /\ threads' = [threads EXCEPT ![i].pc = "dead"]
    /\ UNCHANGED <<server, client, listening_port, editor, sockets, network, wire,
                   mpc, cur, issued, result>>

\* As Released, with the replaced connection kept referenced and so open.
ReleasedNever(old) == {}

\* Rebinding self.client drops the only reference to the connection it held:
\* the socket object is finalized, which closes it.
Released(old) == IF old = None THEN {} ELSE {old[1]}

\* As AcceptReturns, with the thread ending after Popen instead of accepting.
AcceptReturnsNever == FALSE

\* self.server.accept(), line 127, blocks until a connection is pending.
AcceptReturns == backlog # <<>>

\* As Installed, with the handle of a connection that is being replaced
\* cleared instead of rebound.
InstalledCleared(c) == IF client = None THEN Some(c) ELSE None

\* self.client, _ = ..., line 127: one assignment binds the accepted socket.
Installed(c) == Some(c)

\* self.client, _ = self.server.accept(), lines 126-127
ThreadAccept(i) ==
    /\ threads[i].pc = "accept"
    /\ AcceptReturns
    /\ client' = Installed(Head(backlog))
    /\ backlog' = Tail(backlog)
    /\ open' = (open \ Released(client)) \cup {Head(backlog)}
    /\ reset' = reset \ Released(client)
    /\ UNCHANGED <<server, client_process, listening_port, editor, worker, sockets,
                   conns, wire, mpc, cur, issued, result>>

----------------------------------------------------------------------------
(* The renderer *)

RendererRunning == \E p \in 1..Len(popen) : popen[p].ok

\* The renderer connects to the port it was given.
RendererConnect ==
    /\ RendererRunning
    /\ server # None
    /\ Len(backlog) < Backlog
    /\ conns < MaxConns
    /\ conns' = conns + 1
    /\ backlog' = Append(backlog, conns + 1)
    /\ UNCHANGED <<plugin, editor, worker, sockets, open, reset, wire, mpc, cur,
                   issued, result>>

\* The renderer closes its end of an accepted connection, or exits.
RendererHangUp ==
    /\ \E c \in open \ reset : reset' = reset \cup {c}
    /\ UNCHANGED <<plugin, editor, worker, sockets, backlog, conns, open, wire,
                   mpc, cur, issued, result>>

----------------------------------------------------------------------------
(* Requests *)

\* As SendTarget, with the connection of the first accept kept for every send.
SendTargetFirst == IF client = None THEN None ELSE Some(1)

\* self.client at lines 43 and 48: the attribute is read when send is called.
SendTarget == client

\* self.client.send(msg), lines 43 and 48: how the call ends
SendOutcome ==
    IF SendTarget = None THEN "AttributeError"
    ELSE IF SendTarget[1] \in reset \/ SendTarget[1] \notin open THEN "OSError"
    ELSE "sent"

\* The bytes of one send call reach the connection after those of the calls
\* before it.
Transmit(w, f) == Append(w, f)

\* As ClientIsNone, with the check of line 39 left out.
ClientIsNoneNever == FALSE

\* As ClientIsNone, testing the process handle instead of the connection.
ClientIsNoneProcess == client_process = None

\* `if self.client is None: return`, lines 39-40
ClientIsNone == client = None

\* As SendDataMsg, sending the text captured at line 102.
SendDataMsgStale == <<<<"send_data">>, threads[1].current_buffer>>

\* msgpack.packb(['send_data', '\n'.join(self.vim.current.buffer)]), line 42
SendDataMsg == <<<<"send_data">>, Join(buffer)>>

\* msgpack.packb(['open_browser']), line 47
OpenBrowserMsg == <<<<"open_browser">>>>

Written(req, msg) ==
    IF SendOutcome = "sent"
    THEN Transmit(wire, [conn |-> SendTarget[1], req |-> req, msg |-> msg])
    ELSE wire

\* send_current_buffer up to line 40, for the autocommand (lines 131-135) and
\* ComposerUpdate (lines 59-62)
SendBegin(op) ==
    /\ HandlerMayRun
    /\ IF ClientIsNone
       THEN /\ result' = Outcome(op, "dropped")
            /\ UNCHANGED <<mpc, cur, issued>>
       ELSE /\ issued < MaxReqs
            /\ issued' = issued + 1
            /\ mpc' = "write"
            /\ cur' = [op |-> op, req |-> issued + 1, seen |-> client]
            /\ UNCHANGED result
    /\ UNCHANGED <<plugin, editor, worker, sockets, network, wire>>

send_current_buffer_autocmd == SendBegin("autocmd")

send_current_buffer_command == SendBegin("ComposerUpdate")

\* send_current_buffer, lines 42-43
SendWrite ==
    /\ mpc = "write"
    /\ wire' = Written(cur.req, SendDataMsg)
    /\ result' = Outcome(cur.op, SendOutcome)
    /\ mpc' = "idle"
    /\ cur' = NoReq
    /\ UNCHANGED <<plugin, editor, worker, sockets, network, issued>>

\* As OpenBrowserOutcome, with the check of line 39 copied into open_browser.
OpenBrowserOutcomeGuarded == IF client = None THEN "dropped" ELSE SendOutcome

\* open_browser, lines 45-48: how it ends
OpenBrowserOutcome == SendOutcome

\* ComposerOpen, lines 54-57
composer_open ==
    /\ HandlerMayRun
    /\ IF client = None
       THEN issued' = issued
       ELSE issued < MaxReqs /\ issued' = issued + 1
    /\ wire' = IF OpenBrowserOutcome = "sent"
               THEN Written(issued + 1, OpenBrowserMsg) ELSE wire
    /\ result' = Outcome("ComposerOpen", OpenBrowserOutcome)
    /\ UNCHANGED <<plugin, editor, worker, sockets, network, mpc, cur>>

\* ComposerPort, lines 69-72
composer_port ==
    /\ HandlerMayRun
    /\ result' = [op |-> "ComposerPort", how |-> "returned",
                   echom |-> Format(listening_port)]
    /\ UNCHANGED <<plugin, editor, worker, sockets, network, wire, mpc, cur,
                   issued>>

----------------------------------------------------------------------------

Next ==
    \/ EditBuffer
    \/ SetVar
    \/ DirChanged
    \/ composer_start
    \/ auto_start_client
    \/ \E i \in 1..Len(threads) : ThreadSpawn(i)
    \/ \E i \in 1..Len(threads) : ThreadAccept(i)
    \/ RendererConnect
    \/ RendererHangUp
    \/ send_current_buffer_autocmd
    \/ send_current_buffer_command
    \/ SendWrite
    \/ composer_open
    \/ composer_port

Spec == Init /\ [][Next]_vars

\* The thread started at line 129 is scheduled: it is not left forever at
\* Popen, nor at an accept that can return.
Fairness ==
    /\ WF_vars(\E i \in 1..Len(threads) : ThreadSpawn(i))
    /\ WF_vars(\E i \in 1..Len(threads) : ThreadAccept(i))

FairSpec == Spec /\ Fairness

\* Every configuration a start request may find: the g: variables, the buffer,
\* the directory and the file are whatever the user left them.
InitArgs ==
    /\ server = None
    /\ client = None
    /\ client_process = None
    /\ listening_port = None
    /\ vimvars \in [browser : BrowserValues, open_browser : OpenBrowserValues,
                     syntax_theme : ThemeValues, autostart : AutostartValues]
    /\ buffer \in Buffers
    /\ cwd \in Dirs
    /\ file \in Files
    /\ threads = <<>>
    /\ popen = <<>>
    /\ sockets = 0
    /\ backlog = <<>>
    /\ conns = 0
    /\ open = {}
    /\ reset = {}
    /\ wire = <<>>
    /\ mpc = "idle"
    /\ cur = NoReq
    /\ issued = 0
    /\ result = Outcome("none", "none")
    /\ edits = 0

NextArgs ==
    \/ composer_start
    \/ auto_start_client
    \/ \E i \in 1..Len(threads) : ThreadSpawn(i)
    \/ composer_port

SpecArgs == InitArgs /\ [][NextArgs]_vars

----------------------------------------------------------------------------
(* Properties *)

SendDataOps == {"autocmd", "ComposerUpdate"}
StartOps == {"ComposerStart", "FileType"}

IsSendData(f) == f.msg[1] = <<"send_data">>

\* C1: while no connection has been accepted (client is None, before any
\* start or while the thread waits in accept), no frame has been written to
\* any connection, and a buffer-changed handler (the autocommand or
\* ComposerUpdate) has returned at line 40 without raising: it is not left
\* between its check and its write, and it ended "dropped".
C1_NoSendBeforeConnection ==
    client = None =>
        /\ wire = <<>>
        /\ mpc = "idle"
        /\ result.op \in SendDataOps => result.how = "dropped"

\* A buffer-changed event was handled while the thread waits in accept.
C1_Witness ==
    /\ client = None
    /\ server # None
    /\ \E i \in 1..Len(threads) : threads[i].pc = "accept"
    /\ result.op \in SendDataOps
    /\ result.how = "dropped"

\* The arguments lines 111-122 build from a closure, stated from the
\* renderer's command line.
C2_ExpectedArgs(c, port) ==
    [head |-> <<Cargo, Run, Release, DashDash>>,
     browser |-> IF c.browser \in {None, Some(<<>>)} THEN None
                 ELSE Some(BrowserFlag \o c.browser[1]),
     no_browser |-> ~c.open_browser,
     theme |-> IF c.syntax_theme \in {None, Some(<<>>)} THEN None
               ELSE Some(ThemeFlag \o c.syntax_theme[1]),
     tail |-> <<Str(port), c.current_buffer>>]

HasPrefix(a, pre) == Len(a) >= Len(pre) /\ SubSeq(a, 1, Len(pre)) = pre

\* What a command line holds: its first four words, its flags, its last two words.
C2_Shape(args) ==
    [head |-> SubSeq(args, 1, 4),
     browser |-> IF \E i \in 5..Len(args) - 2 :
                        HasPrefix(args[i], BrowserFlag)
                 THEN Some(CHOOSE a \in {args[i] : i \in 5..Len(args) - 2} :
                               HasPrefix(a, BrowserFlag))
                 ELSE None,
     no_browser |-> \E i \in 5..Len(args) - 2 : args[i] = NoBrowserFlag,
     theme |-> IF \E i \in 5..Len(args) - 2 :
                      HasPrefix(args[i], ThemeFlag)
               THEN Some(CHOOSE a \in {args[i] : i \in 5..Len(args) - 2} :
                             HasPrefix(a, ThemeFlag))
               ELSE None,
     tail |-> SubSeq(args, Len(args) - 1, Len(args))]

\* C2: however many start requests are handled (ComposerStart and FileType,
\* with changes to the variables and the buffer in between), one thread is
\* started and it calls Popen once: never more than one call, exactly one
\* once the thread is past line 121, and one process when that call
\* succeeds.  The arguments of the call are those of the values read at the
\* first start request (the thread's closure), not of the current ones.
C2_OneSpawnFirstSnapshot ==
    /\ Len(threads) <= 1
    /\ Len(popen) <= 1
    /\ sockets <= 1
    /\ \A i \in 1..Len(threads) :
          /\ threads[i].pc # "spawn" => Len(popen) = 1
          /\ threads[i].pc = "accept" => client_process = Some(1) /\ popen[1].ok
    /\ \A p \in 1..Len(popen) :
          C2_Shape(popen[p].args) = C2_ExpectedArgs(threads[1], listening_port[1])

\* A second start request was handled after the spawn, and the variables or
\* the buffer are no longer what they were at the first start request.
C2_Witness ==
    /\ result.op \in StartOps
    /\ result.how = "noop"
    /\ Len(popen) = 1
    /\ popen[1].ok
    /\ edits > 0
    /\ [threads[1] EXCEPT !.pc = "spawn"] # [pc |-> "spawn"] @@ Closure

C4_OpenWithoutStartRaises ==
    (server = None /\ result.op = "ComposerOpen") =>
        /\ result.how = "AttributeError"
        /\ wire = <<>>

\* ComposerOpen was handled before any start request.
C4_Witness ==
    /\ server = None
    /\ threads = <<>>
    /\ result.op = "ComposerOpen"

\* C5: every send_data frame written, and so the first one after the
\* connection is accepted, carries the whole buffer as it is when the
\* handler reads it at line 42: splitting its text at the newlines gives
\* back the buffer's lines, whatever was dropped before.
C5_FrameCarriesCurrentBuffer ==
    [][(Len(wire') > Len(wire) /\ IsSendData(wire'[Len(wire')]))
        => Split(wire'[Len(wire')].msg[2]) = buffer]_vars

\* The first frame is a send_data frame written after the buffer changed:
\* its text is the two-line buffer of now, not the text captured at start.
C5_Witness ==
    /\ Len(wire) >= 1
    /\ IsSendData(wire[1])
    /\ edits > 0
    /\ Len(buffer) = 2
    /\ wire[1].msg[2] = Join(buffer)
    /\ wire[1].msg[2] # threads[1].current_buffer

\* C6: once the listening socket is bound, no step, and so no start request
\* (while the thread waits in accept or after a connection is accepted),
\* creates or binds another socket or changes the port, and a port query
\* handled from then on echoes that same port.
C6_SecondStartKeepsSocket ==
    [][server # None =>
        /\ server' = server
        /\ sockets' = sockets
        /\ listening_port' = listening_port
        /\ (result'.op = "ComposerPort" /\ result' # result)
              => result'.echom = Str(listening_port[1])]_vars

\* A start request was handled as a no-op while a connection was accepted.
C6_Witness ==
    /\ server # None
    /\ client # None
    /\ sockets = 1
    /\ result.op \in StartOps
    /\ result.how = "noop"

\* The thread's Popen call raised: the thread has ended and no process is
\* recorded.
SpawnFailed ==
    /\ threads # <<>>
    /\ \A i \in 1..Len(threads) : threads[i].pc = "dead"
    /\ client_process = None

\* C7, as claimed: after the spawn has failed, a ComposerStart makes a new
\* spawn attempt (it starts a thread that will call Popen).
C7_StartAfterFailedSpawnRetries ==
    [][(SpawnFailed /\ result'.op = "ComposerStart" /\ result' # result)
        => Len(threads') > Len(threads)]_vars

\* C8, as claimed: a failed write on an accepted connection never ends a
\* send_data or open_browser handler with an error raised to the plugin host.
C8_WriteFailureNotRaised ==
    client # None => result.how # "OSError"

Stalled ==
    /\ \E i \in 1..Len(threads) : threads[i].pc = "accept"
    /\ conns = 0

StartReturnsAtOnce ==
    (server = None /\ server' # None) =>
        /\ result'.how = "started"
        /\ mpc' = "idle"
        /\ popen' = popen
        /\ client_process' = client_process
        /\ client' = client
        /\ conns' = conns
        /\ Len(threads') = Len(threads) + 1
        /\ threads'[Len(threads')].pc = "spawn"

\* Popen and accept happen in steps of a thread, never in a handler's step.
SpawnAndAcceptOnThread ==
    (popen' # popen \/ client_process' # client_process \/ client' # client) =>
        /\ \E i \in 1..Len(threads) : threads[i].pc \in {"spawn", "accept"}
        /\ result' = result
        /\ mpc' = mpc
        /\ cur' = cur
        /\ wire' = wire

\* C11: a start request returns without waiting for the renderer to be spawned
\* or to connect (StartReturnsAtOnce); Popen and accept happen on the thread
\* only (SpawnAndAcceptOnThread); and while the start has returned and no
\* connection is installed yet, the main thread is free to handle a
\* buffer-changed event, a port query and a further start request.
C11_StartReturnsBeforeSpawn ==
    /\ [][StartReturnsAtOnce /\ SpawnAndAcceptOnThread]_vars
    /\ [](server # None /\ client = None =>
             /\ mpc = "idle"
             /\ ENABLED send_current_buffer_autocmd
             /\ ENABLED composer_port
             /\ ENABLED composer_start)

\* A buffer-changed event was handled after the start returned and before the
\* thread had called Popen.
C11_Witness ==
    /\ server # None
    /\ client = None
    /\ popen = <<>>
    /\ \E i \in 1..Len(threads) : threads[i].pc = "spawn"
    /\ result.op = "autocmd"
    /\ result.how = "dropped"

\* A FileType event starts the bridge unless g:markdown_composer_autostart is
\* set to 0, and then it changes nothing.
AutoStartPolicy ==
    (result' # result /\ result'.op = "FileType") =>
        /\ (result'.how = "skipped") <=> (vimvars.autostart = Some(0))
        /\ result'.how = "skipped" =>
               plugin' = plugin /\ worker' = worker /\ sockets' = sockets

\* A start that is not skipped moves an idle session to starting (socket
\* bound, thread started, no connection yet) and leaves any other alone.
StartFromIdleOnly ==
    (result' # result /\ result'.op \in StartOps /\ result'.how # "skipped") =>
        IF server = None
        THEN /\ result'.how = "started"
             /\ server' # None
             /\ listening_port' # None
             /\ client' = None
             /\ Len(threads') = Len(threads) + 1
        ELSE /\ result'.how = "noop"
             /\ plugin' = plugin
             /\ worker' = worker
             /\ sockets' = sockets

\* The session leaves idle in a start handler only; a FileType event does it
\* only when the policy allows.
LeavesIdleByStart ==
    server' # server =>
        /\ result'.op \in StartOps
        /\ result'.how = "started"
        /\ result'.op = "FileType" => vimvars.autostart # Some(0)

\* C12: a FileType markdown event starts the bridge exactly when the
\* auto-start policy is true, which it is when the variable is unset; with the
\* policy false the event leaves the session idle however often it comes; a
\* manual ComposerStart is never skipped; and either start moves an idle
\* session to starting and is a no-op in every other state.
C12_AutoStartPolicy ==
    [][/\ AutoStartPolicy
       /\ StartFromIdleOnly
       /\ LeavesIdleByStart
       /\ result'.op = "ComposerStart" => result'.how \in {"started", "noop"}]_vars

\* With auto-start off, a FileType event was skipped and the session is idle.
C12_Witness ==
    /\ vimvars.autostart = Some(0)
    /\ result.op = "FileType"
    /\ result.how = "skipped"
    /\ server = None
    /\ threads = <<>>

\* The optional arguments of a command line: those between `--` and the last
\* two words.
Flags(args) == {args[i] : i \in 5..Len(args) - 2}

\* A string variable is configured when it is set to a non-empty string.
Configured(v) == v # None /\ v # Some(<<>>)

\* C13: for every configuration a start request finds, the renderer's command
\* line holds --browser=<name> exactly when a browser is configured (and then
\* with that name and no other), --no-browser exactly when
\* g:markdown_composer_open_browser is set to 0 (unset means enabled), and
\* --highlight-theme=<name> exactly when a theme is configured.
C13_FlagsFollowConfiguration ==
    \A p \in 1..Len(popen) :
        LET flags == Flags(popen[p].args) IN
        /\ Configured(vimvars.browser) <=>
               \E a \in flags : HasPrefix(a, BrowserFlag)
        /\ \A a \in flags : HasPrefix(a, BrowserFlag) =>
               a = BrowserFlag \o vimvars.browser[1]
        /\ (vimvars.open_browser = Some(0)) <=> (NoBrowserFlag \in flags)
        /\ Configured(vimvars.syntax_theme) <=>
               \E a \in flags : HasPrefix(a, ThemeFlag)
        /\ \A a \in flags : HasPrefix(a, ThemeFlag) =>
               a = ThemeFlag \o vimvars.syntax_theme[1]

\* A renderer was started with a browser and a theme configured and the
\* browser not to be opened: all three flags are on its command line.
C13_Witness ==
    /\ Len(popen) = 1
    /\ Configured(vimvars.browser)
    /\ Configured(vimvars.syntax_theme)
    /\ vimvars.open_browser = Some(0)
    /\ Cardinality(Flags(popen[1].args)) = 3

WorkingDirFlag == <<"-", "-", "w", "o", "r", "k", "i", "n", "g", "-", "d", "i",
                    "r", "e", "c", "t", "o", "r", "y", "=">>

Last(seq) == seq[Len(seq)]

\* C14: the renderer's command line holds --working-directory=<cwd> for the
\* editor's current directory, ends with the path of the current file when
\* the buffer is backed by an existing file, and holds no file path when the
\* buffer has no file behind it.
C14_WorkingDirectoryAndFilePath ==
    \A p \in 1..Len(popen) :
        LET args == popen[p].args IN
        /\ \E i \in 1..Len(args) : args[i] = WorkingDirFlag \o cwd
        /\ file # None => Last(args) = file[1]
        /\ file = None => \A i \in 1..Len(args) : Some(args[i]) \notin Files

Digits == {Digit(d) : d \in 0..9}

\* int(text) for a string of decimal digits
RECURSIVE ParseInt(_)
ParseInt(text) ==
    IF Len(text) = 0 THEN 0
    ELSE 10 * ParseInt(SubSeq(text, 1, Len(text) - 1))
         + (CHOOSE d \in 0..9 : Digit(d) = Last(text))

IsNumber(text) == Len(text) > 0 /\ \A i \in 1..Len(text) : text[i] \in Digits

\* What a port query shows: before the socket is bound a text with no digit
\* in it, afterwards the decimal of the bound port, which is also the word
\* before the last on every renderer command line.
PortQueryShowsPort ==
    (result' # result /\ result'.op = "ComposerPort") =>
        IF server = None
        THEN \A i \in 1..Len(result'.echom) : result'.echom[i] \notin Digits
        ELSE /\ IsNumber(result'.echom)
             /\ ParseInt(result'.echom) = listening_port[1]
             /\ \A p \in 1..Len(popen) :
                    popen[p].args[Len(popen[p].args) - 1] = result'.echom

\* C15: ComposerPort shows a sentinel (the text None, no number) in every
\* state before the socket is bound; once it is bound it shows the bound port,
\* and that is the number the renderer was given as its port argument.  The
\* port is recorded exactly when the socket is bound.
C15_PortQuery ==
    /\ [][PortQueryShowsPort]_vars
    /\ [](/\ (server = None) <=> (listening_port = None)
          /\ \A p \in 1..Len(popen) :
                 LET word == popen[p].args[Len(popen[p].args) - 1] IN
                 /\ listening_port # None
                 /\ IsNumber(word)
                 /\ ParseInt(word) = listening_port[1])

\* The port was queried after the renderer was started with it.
C15_Witness ==
    /\ result.op = "ComposerPort"
    /\ listening_port # None
    /\ Len(popen) = 1
    /\ ParseInt(result.echom) = listening_port[1]
    /\ popen[1].args[Len(popen[1].args) - 1] = result.echom

\* C16: when the editor's directory changes while a connection is installed
\* (and its renderer end is up), one chdir frame carrying the new directory is
\* written to it; when it changes while no connection is installed, nothing
\* is written and no handler ends with an error.
C16_DirectoryChangeSendsChdir ==
    [][cwd' # cwd =>
          IF client # None /\ client[1] \in open \ reset
          THEN /\ Len(wire') = Len(wire) + 1
               /\ Last(wire').conn = client[1]
               /\ Last(wire').msg = <<<<"c", "h", "d", "i", "r">>, cwd'>>
          ELSE client = None => wire' = wire /\ result' = result]_vars

\* The connection accepted last: connections are numbered as the renderer
\* makes them and accepted in that order.
NewestAccepted == conns - Len(backlog)

\* Every frame written goes, whole and after those before it, to the
\* connection accepted last.
WritesGoToNewest ==
    wire' # wire =>
        /\ Len(wire') = Len(wire) + 1
        /\ SubSeq(wire', 1, Len(wire)) = wire
        /\ NewestAccepted >= 1
        /\ Last(wire').conn = NewestAccepted

\* A send that reaches its write while the renderer's end of the connection
\* accepted last is up is delivered.
NewestDelivers ==
    (mpc = "write" /\ mpc' = "idle" /\ NewestAccepted \notin reset) =>
        /\ result'.how = "sent"
        /\ Len(wire') = Len(wire) + 1

\* C17: once a second or later connection has been accepted, every request is
\* written to the connection accepted last and never to an earlier one, also
\* when writes to the earlier one had failed: a reconnect restores delivery,
\* and it does so on the one socket of the one start request.
C17_WritesFollowLastAccept ==
    /\ [][WritesGoToNewest /\ NewestDelivers]_vars
    /\ [](sockets <= 1 /\ Len(threads) <= 1)

\* The first request failed on the first connection; after the renderer
\* connected again the second request was written to the second connection.
C17_Witness ==
    /\ sockets = 1
    /\ client = Some(2)
    /\ issued = 2
    /\ Len(wire) = 1
    /\ wire[1].conn = 2
    /\ wire[1].req = 2
    /\ IsSendData(wire[1])

\* Between its check and its write a handler holds a connection: the handle
\* is not None, it names an accepted socket that is open, and that socket is
\* the one the handler saw at its check or one accepted since.
HandleWholeDuringSend ==
    mpc = "write" =>
        /\ cur.seen # None
        /\ client # None
        /\ client[1] \in open
        /\ client[1] >= cur.seen[1]
        /\ client[1] <= NewestAccepted

\* The write of a handler is one send call on the connection installed at
\* that moment: it appends one whole send_data frame to that connection and
\* to no other, or, when the renderer's end is gone, fails and appends nothing.
OneSendOnOneConnection ==
    (mpc = "write" /\ mpc' = "idle") =>
        /\ result'.how \in {"sent", "OSError"}
        /\ (result'.how = "sent") <=> (client[1] \notin reset)
        /\ wire' = IF result'.how = "sent"
                   THEN Append(wire, [conn |-> client[1], req |-> cur.req,
                                      msg |-> <<<<"send_data">>, Join(buffer)>>])
                   ELSE wire

\* A handler drops its request only when it saw no connection at its check,
\* and then it writes nothing.
DropOnlyWithoutConnection ==
    (result' # result /\ result'.op \in SendDataOps /\ result'.how = "dropped") =>
        /\ client = None
        /\ mpc = "idle" /\ mpc' = "idle"
        /\ wire' = wire

\* C18: however a buffer-changed handler interleaves with the thread
\* installing a connection, the handler either drops its request, having seen
\* no connection at its check, or makes one send call that writes one whole
\* frame to exactly one connection, the one installed when it writes (seen at
\* the check or accepted during the handler).  Between check and write the
\* handle is never None and never a socket that is not fully accepted, and no
\* buffer-changed handler ends with AttributeError.
C18_NoTornHandle ==
    /\ [](HandleWholeDuringSend
          /\ result.op \in SendDataOps =>
                 result.how \in {"dropped", "sent", "OSError"})
    /\ [][OneSendOnOneConnection /\ DropOnlyWithoutConnection]_vars

\* The thread installed a second connection between a handler's check, which
\* saw the first, and its write.
C18_Witness ==
    /\ mpc = "write"
    /\ cur.seen = Some(1)
    /\ client = Some(2)
    /\ open = {2}

\* A connection, once installed, stays installed, and a buffer-changed event
\* handled while one is installed is not dropped: its handler ends with the
\* write, which delivers a send_data frame when the renderer's end is up.
SentOnceConnected ==
    /\ client # None => client' # None
    /\ (client # None /\ result' # result /\ result'.op \in SendDataOps) =>
           /\ result'.how # "dropped"
           /\ client[1] \notin reset =>
                  /\ result'.how = "sent"
                  /\ Len(wire') = Len(wire) + 1
                  /\ IsSendData(Last(wire'))
                  /\ Last(wire').conn = client[1]

\* C19: under fair scheduling of the thread, after a start request the thread
\* gets to call Popen, and once the renderer runs and has connected to the
\* port the thread accepts the connection: the session becomes connected to
\* it (or to one the renderer made later).  From then on it stays connected,
\* and every buffer-changed event handled is sent instead of being dropped.
C19_EventuallyConnected ==
    /\ (server # None) ~> (popen # <<>>)
    /\ \A c \in 1..(MaxConns + 1) :
           (client_process # None /\ backlog # <<>> /\ Head(backlog) = c)
               ~> (client # None /\ client[1] >= c /\ client[1] \in open)
    /\ [][SentOnceConnected]_vars

\* The renderer connected, the thread accepted, and a buffer-changed event
\* handled afterwards was written to the connection.
C19_Witness ==
    /\ client = Some(1)
    /\ result.op = "autocmd"
    /\ result.how = "sent"
    /\ Len(wire) = 1
    /\ IsSendData(wire[1])
    /\ wire[1].conn = 1

\* A connection implies a recorded process, and a recorded process implies a
\* bound socket with its port recorded.
HandlesInOrder ==
    /\ client # None => client_process # None
    /\ client_process # None => server # None /\ listening_port # None
    /\ server # None <=> listening_port # None

\* The socket and the port, once set, keep their values; the process handle,
\* once set, keeps its value; the connection handle, once set, is never None
\* again (it may name a later connection); so a session that has left idle
\* never is idle again.
HandlesMoveForward ==
    /\ server # None => server' = server
    /\ listening_port # None => listening_port' = listening_port
    /\ client_process # None => client_process' = client_process
    /\ client # None => client' # None /\ client'[1] >= client[1]
    /\ plugin # <<None, None, None, None>> => plugin' # <<None, None, None, None>>

\* The send handlers (buffer changed, ComposerUpdate, ComposerOpen) and the
\* port query change none of the four handles.
SendHandlersKeepHandles ==
    (\/ mpc' # mpc
     \/ wire' # wire
     \/ /\ result' # result
        /\ result'.op \in SendDataOps \cup {"ComposerOpen", "ComposerPort"}) =>
        plugin' = plugin

\* C20: the session only moves forward.  The listening socket and the port
\* are never cleared or changed once set, the connection handle is never
\* None again once set, a connection implies a recorded process and a
\* recorded process a bound socket with its port, the session never returns
\* to idle, and the buffer-changed, ComposerUpdate, ComposerOpen and
\* ComposerPort handlers leave all four handles as they were.
C20_HandlesOnlyMoveForward ==
    /\ []HandlesInOrder
    /\ [][HandlesMoveForward /\ SendHandlersKeepHandles]_vars

\* A connected session whose connection was replaced once, after a port
\* query: all four handles are set, socket and process the first ones.
C20_Witness ==
    /\ server = Some(1)
    /\ listening_port = Some(EphemeralPort(1))
    /\ client_process = Some(1)
    /\ client = Some(2)
    /\ result.op = "ComposerPort"
    /\ wire # <<>>

====
